---- MODULE Spec2Model ----
(***************************************************************************)
(* Model of the recording session state machine of LectureSense-Web:       *)
(* RecorderService (src/services/recorderService.ts) together with the     *)
(* browser objects it drives (getDisplayMedia requests, MediaStream        *)
(* tracks, MediaRecorder, window.setInterval).                             *)
(*                                                                         *)
(* JavaScript runs every handler to completion on one event loop, so each  *)
(* handler is one action.  The only suspension point of the service is the *)
(* `await navigator.mediaDevices.getDisplayMedia(...)` of start(): the     *)
(* part before it is StartCall, the part after it is Grant (resolved) or   *)
(* Reject (rejected).                                                      *)
(***************************************************************************)
EXTENDS Integers, Sequences, FiniteSets, TLC

\* ---- bounds -------------------------------------------------------------
MaxStarts == 2      \* capture requests granted or still pending
MaxChunks == 2      \* dataavailable events of all encoders together
MaxElapsed == 2     \* ticks counted by one timer run
MaxTracks == 2      \* tracks of one stream, where they are told apart
MaxBlobSize == 3    \* bytes of a finished artifact handed to the App
MaxResources == 3   \* resources handed to the useCleanup hook
MaxCleanups == 2    \* calls of cleanupAll

NULL == 0
Ids == 1..MaxStarts             \* k names the k-th granted stream, its encoder and its interval

RecorderStates == {"idle", "recording", "stopping", "error"}

VARIABLES
    \* fields of RecorderService
    state, stream, mediaRecorder, chunks, timerInterval, elapsedSeconds,
    videoPreviewElement,
    \* browser objects
    srcObject,      \* srcObject of the caller's <video> element
    pending,        \* getDisplayMedia promises not yet settled
    granted,        \* streams granted so far
    tracks,         \* tracks[k]: "none" | "live" | "ended" (readyState of the stream's tracks)
    recState,       \* recState[k]: "none" | "recording" | "finalizing" | "stopped"
    timers,         \* interval ids that are still scheduled
    dataEvents,     \* dataavailable events fired so far
    \* observation of the last handler that ran
    lastOp,         \* its name and the error it was given, if any
    notes,          \* callbacks and console warnings it produced, in order
    \* the held stream track by track, for the release study (SpecRelease):
    \* trs[i] is track i's readyState (track 1 is the video track), fails the
    \* tracks whose stop() throws, threw whether the last handler ended with
    \* that exception uncaught
    rel,
    \* history: the latest capture request was made by a start() called in
    \* Error, and no request has completed since
    retry,
    \* the App's processing of a finished artifact (SpecApp)
    app,
    \* the useCleanup hook (SpecCleanup)
    cleanup

svcVars == <<state, stream, mediaRecorder, chunks, timerInterval, elapsedSeconds,
             videoPreviewElement>>
envVars == <<srcObject, pending, granted, tracks, recState, timers, dataEvents>>
vars == <<state, stream, mediaRecorder, chunks, timerInterval, elapsedSeconds,
          videoPreviewElement, srcObject, pending, granted, tracks,
          recState, timers, dataEvents, lastOp, notes, rel, retry, app, cleanup>>

Note(t, v) == [t |-> t, v |-> v]

\* The service and the objects its handlers touch, as one value, so that a
\* handler body is a composition of the methods it calls.
Cur ==
    [state |-> state, stream |-> stream, mediaRecorder |-> mediaRecorder,
     chunks |-> chunks, timerInterval |-> timerInterval,
     elapsedSeconds |-> elapsedSeconds,
     videoPreviewElement |-> videoPreviewElement, srcObject |-> srcObject,
     pending |-> pending,
     tracks |-> tracks, recState |-> recState, timers |-> timers,
     notes |-> <<>>]

Commit(s) ==
    /\ state' = s.state
    /\ stream' = s.stream
    /\ mediaRecorder' = s.mediaRecorder
    /\ chunks' = s.chunks
    /\ timerInterval' = s.timerInterval
    /\ elapsedSeconds' = s.elapsedSeconds
    /\ videoPreviewElement' = s.videoPreviewElement
    /\ srcObject' = s.srcObject
    /\ pending' = s.pending
    /\ tracks' = s.tracks
    /\ recState' = s.recState
    /\ timers' = s.timers
    /\ notes' = s.notes

\* ---- private methods ----------------------------------------------------

\* setState() that changes the state without telling the caller
setStateSilent(s, newState) == [s EXCEPT !.state = newState]

setState(s, newState) ==
    [s EXCEPT !.state = newState, !.notes = Append(@, Note("state", newState))]

warn(s, msg) == [s EXCEPT !.notes = Append(@, Note("warn", msg))]

stopTimer(s) ==
    IF s.timerInterval # NULL
    THEN [s EXCEPT !.timers = @ \ {s.timerInterval}, !.timerInterval = NULL]
    ELSE s

\* track.stop() on every track of the held stream
cleanupStream(s) ==
    IF s.stream # NULL
    THEN [s EXCEPT !.tracks[s.stream] = IF @ = "live" THEN "ended" ELSE @,
                   !.stream = NULL]
    ELSE s

\* cleanupPreview() without its null check: with no element the assignment
\* throws a TypeError
cleanupPreviewUnchecked(s) ==
    IF s.videoPreviewElement
    THEN [s EXCEPT !.srcObject = NULL]
    ELSE [s EXCEPT !.notes = Append(@, Note("error", [name |-> "TypeError", permMsg |-> FALSE]))]

cleanupPreview(s) ==
    IF s.videoPreviewElement THEN [s EXCEPT !.srcObject = NULL] ELSE s

\* dispose() that drops the stream reference without stopping its tracks
disposeNoTrackStop(s) ==
    LET a == cleanupPreview(stopTimer(s))
    IN  setState([a EXCEPT !.mediaRecorder = NULL, !.stream = NULL,
                           !.chunks = <<>>, !.elapsedSeconds = 0], "idle")

dispose(s) ==
    LET a == cleanupPreview(cleanupStream(stopTimer(s)))
    IN  setState([a EXCEPT !.mediaRecorder = NULL, !.stream = NULL,
                           !.chunks = <<>>, !.elapsedSeconds = 0], "idle")

\* handleError() that reports the error but leaves the state dispose() set
handleErrorNoState(s, err) ==
    LET a == dispose(s)
    IN  [a EXCEPT !.notes = Append(@, Note("error", err))]

handleError(s, err) ==
    LET a == setState(dispose(s), "error")
    IN  [a EXCEPT !.notes = Append(@, Note("error", err))]

\* handleRecordingStopped() that hands the artifact over before it goes Idle
handleRecordingStoppedNotifyFirst(s) ==
    LET a == cleanupPreview(cleanupStream(stopTimer(s)))
        blob == a.chunks
        b == [a EXCEPT !.chunks = <<>>, !.notes = Append(@, Note("stop", blob))]
    IN  setState(b, "idle")

\* handleRecordingStopped() that turns an empty artifact into an error itself
handleRecordingStoppedRejectEmpty(s) ==
    LET a == cleanupPreview(cleanupStream(stopTimer(s)))
        blob == a.chunks
        b == setState([a EXCEPT !.chunks = <<>>], "idle")
    IN  IF blob = <<>>
        THEN handleError(s, [name |-> "Error", permMsg |-> FALSE])
        ELSE [b EXCEPT !.notes = Append(@, Note("stop", blob))]

handleRecordingStopped(s) ==
    LET a == cleanupPreview(cleanupStream(stopTimer(s)))
        blob == a.chunks
        b == setState([a EXCEPT !.chunks = <<>>], "idle")
    IN  [b EXCEPT !.notes = Append(@, Note("stop", blob))]

startTimer(s, id) ==
    [s EXCEPT !.elapsedSeconds = 0,
              !.notes = Append(@, Note("time", 0)),
              !.timerInterval = id,
              !.timers = @ \cup {id}]

\* MediaRecorder.state as JavaScript sees it
jsRecorderState(s, r) == IF s.recState[r] = "recording" THEN "recording" ELSE "inactive"

\* stop() without its 'not recording' guard
stopNoGuard(s) ==
    LET a == setState(s, "stopping")
    IN  IF a.mediaRecorder # NULL /\ jsRecorderState(a, a.mediaRecorder) # "inactive"
        THEN [a EXCEPT !.recState[a.mediaRecorder] = "finalizing"]
        ELSE a

\* stop() whose guard turns away Idle only
stopGuardsIdleOnly(s) ==
    IF s.state = "idle" THEN warn(s, "Not currently recording") ELSE stopNoGuard(s)

\* stop() that enters Stopping without asking the encoder to finalize
stopNoFinalize(s) ==
    IF s.state # "recording" THEN warn(s, "Not currently recording") ELSE setState(s, "stopping")

stop(s) ==
    IF s.state # "recording"
    THEN warn(s, "Not currently recording")
    ELSE LET a == setState(s, "stopping")
         IN  IF a.mediaRecorder # NULL /\ jsRecorderState(a, a.mediaRecorder) # "inactive"
             THEN [a EXCEPT !.recState[a.mediaRecorder] = "finalizing"]
             ELSE a

\* ---- errors ---------------------------------------------------------------
\* An error is its name and whether its message contains 'Permission denied'.
Err(name, permMsg) == [name |-> name, permMsg |-> permMsg]

\* rejections of getDisplayMedia
RejectErrors ==
    { Err("NotAllowedError", TRUE),     \* "Permission denied" (Chromium)
      Err("NotAllowedError", FALSE),    \* other wording of the same denial
      Err("NotFoundError", FALSE),
      Err("NotReadableError", FALSE),
      Err("AbortError", FALSE) }

\* what happens after the stream was granted: the encoder starts, or the
\* MediaRecorder constructor throws, or the defensive check of lines 147-149
\* finds the new encoder not inactive, or MediaRecorder.start() throws
EncoderOutcomes == {"ok", "ctorThrows", "notInactive", "startThrows"}

EncoderError(outcome) ==
    CASE outcome = "ctorThrows"  -> Err("NotSupportedError", FALSE)
      [] outcome = "notInactive" -> Err("Error", FALSE)
      [] outcome = "startThrows" -> Err("InvalidStateError", FALSE)

isPermissionDenied(err) == err.name = "NotAllowedError" \/ err.permMsg

startCatch(s, err) ==
    IF isPermissionDenied(err) THEN setState(s, "idle") ELSE handleError(s, err)

\* ---- start() --------------------------------------------------------------

\* start() without its 'already recording' guard
startBeginNoGuard(s) ==
    [setState(s, "idle") EXCEPT !.chunks = <<>>, !.elapsedSeconds = 0,
                                !.pending = @ + 1]

\* start() up to its await: the guard, the reset, the capture request
startBegin(s) ==
    IF s.state = "recording"
    THEN warn(s, "Already recording")
    ELSE [setState(s, "idle") EXCEPT !.chunks = <<>>, !.elapsedSeconds = 0,
                                     !.pending = @ + 1]

\* start() after its await resolved with stream id
startResume(s, id, outcome) ==
    LET a == [s EXCEPT !.stream = id, !.tracks[id] = "live"]
        b == IF a.videoPreviewElement THEN [a EXCEPT !.srcObject = id] ELSE a
    IN  IF outcome = "ctorThrows"
        THEN startCatch(b, EncoderError(outcome))
        ELSE LET c == [b EXCEPT !.mediaRecorder = id]
             IN  IF outcome \in {"notInactive", "startThrows"}
                 THEN startCatch(c, EncoderError(outcome))
                 ELSE startTimer(setState([c EXCEPT !.recState[id] = "recording"],
                                          "recording"), id)

\* ---- event handlers registered by start() ---------------------------------

\* track-ended hook that finalizes at once instead of going through stop()
onendedFinalizeNow(s) == IF s.state = "recording" THEN handleRecordingStopped(s) ELSE s

onended(s) == IF s.state = "recording" THEN stop(s) ELSE s

\* ondataavailable without the size check
ondataavailableAnySize(s, chunk, size) ==
    [s EXCEPT !.chunks = Append(@, chunk), !.notes = Append(@, Note("data", chunk))]

ondataavailable(s, chunk, size) ==
    IF size > 0
    THEN [s EXCEPT !.chunks = Append(@, chunk), !.notes = Append(@, Note("data", chunk))]
    ELSE s

onerror(s) == handleError(s, Err("Error", FALSE))

\* a tick that notifies the time but does not advance it
onTickNoAdvance(s) == [s EXCEPT !.notes = Append(@, Note("time", s.elapsedSeconds + 1))]

onTick(s) ==
    [s EXCEPT !.elapsedSeconds = @ + 1,
              !.notes = Append(@, Note("time", s.elapsedSeconds + 1))]

NoErr == Err("", FALSE)
\* audio: the stream granted in this step carries an audio track;
\* size: the size of the fragment of this data event
Op(name, err) == [name |-> name, err |-> err, audio |-> FALSE, size |-> 0]

NoTracks == [trs |-> <<>>, fails |-> {}, threw |-> FALSE]

Failure(msg, marks) == [msg |-> msg, marks |-> marks]
NoFailure == Failure("", {})

\* no text returned yet
NoText == [chars |-> 0, spaces |-> 0]

\* the App before an artifact reaches it; text is the text the last API call
\* returned
AppAt(variant, apiKey) ==
    [variant |-> variant, apiKey |-> apiKey, appState |-> "RECORDING",
     error |-> FALSE, summary |-> FALSE, pendingBlobRef |-> FALSE,
     pc |-> "idle", size |-> 0, attempt |-> 0, calls |-> 0,
     lastError |-> NoFailure, step |-> "mount", text |-> NoText]
NoApp == AppAt("service", TRUE)

\* the useCleanup hook after its first render: resources is resources.current;
\* handled lists the URLs revoked and the custom cleanups invoked so far, in
\* order, each with whether the call threw; warnings counts the console
\* warnings of the last call; tracked the resources pushed so far; runs the
\* calls of cleanupAll; op the last function of the hook that ran
NoCleanup ==
    [resources |-> <<>>, handled |-> <<>>, warnings |-> 0, tracked |-> 0,
     runs |-> 0, op |-> "mount"]

\* ---- initial state ----------------------------------------------------------

Init ==
    /\ state = "idle"
    /\ stream = NULL
    /\ mediaRecorder = NULL
    /\ chunks = <<>>
    /\ timerInterval = NULL
    /\ elapsedSeconds = 0
    /\ videoPreviewElement = FALSE
    /\ srcObject = NULL
    /\ pending = 0
    /\ granted = 0
    /\ tracks = [k \in Ids |-> "none"]
    /\ recState = [k \in Ids |-> "none"]
    /\ timers = {}
    /\ dataEvents = 0
    /\ lastOp = Op("new", NoErr)
    /\ notes = <<>>
    /\ rel = NoTracks
    /\ retry = FALSE
    /\ app = NoApp
    /\ cleanup = NoCleanup

\* ---- actions: calls of the public API ---------------------------------------

SetPreviewElement(element) ==
    /\ Commit([Cur EXCEPT !.videoPreviewElement = element])
    /\ lastOp' = Op("setPreviewElement", NoErr)
    /\ UNCHANGED <<granted, dataEvents, rel, retry, app, cleanup>>

\* the App hands over its <video> element once, when it mounts, before the
\* user can reach any control
MountPreview ==
    /\ lastOp.name = "new"
    /\ SetPreviewElement(TRUE)

StartCall ==
    /\ state = "recording" \/ granted + pending < MaxStarts
    /\ Commit(startBegin(Cur))
    /\ lastOp' = Op("start", NoErr)
    /\ retry' = IF state = "recording" THEN retry ELSE state = "error"
    /\ UNCHANGED <<granted, dataEvents, rel, app, cleanup>>

StopCall ==
    /\ Commit(stop(Cur))
    /\ lastOp' = Op("stop", NoErr)
    /\ UNCHANGED <<granted, dataEvents, rel, retry, app, cleanup>>

DisposeCall ==
    /\ Commit(dispose(Cur))
    /\ lastOp' = Op("dispose", NoErr)
    /\ UNCHANGED <<granted, dataEvents, rel, retry, app, cleanup>>

\* ---- actions: completions and events of the platform -------------------------

\* the capture request resolves: the user picked a source, with or without
\* sharing its audio
Grant ==
    /\ pending > 0
    /\ \E outcome \in EncoderOutcomes, hasAudio \in BOOLEAN :
          /\ granted' = granted + 1
          /\ Commit(startResume([Cur EXCEPT !.pending = @ - 1], granted + 1, outcome))
          /\ lastOp' = [Op("grant", IF outcome = "ok" THEN NoErr ELSE EncoderError(outcome))
                          EXCEPT !.audio = hasAudio]
    /\ retry' = FALSE
    /\ UNCHANGED <<dataEvents, rel, app, cleanup>>

\* the capture request rejects
Reject ==
    /\ pending > 0
    /\ \E err \in RejectErrors :
          /\ Commit(startCatch([Cur EXCEPT !.pending = @ - 1], err))
          /\ lastOp' = Op("reject", err)
    /\ retry' = FALSE
    /\ UNCHANGED <<granted, dataEvents, rel, app, cleanup>>

\* the user ends the capture with the browser's own control
TrackEnded ==
    /\ \E k \in Ids :
          /\ tracks[k] = "live"
          /\ Commit(onended([Cur EXCEPT !.tracks[k] = "ended"]))
    /\ lastOp' = Op("ended", NoErr)
    /\ UNCHANGED <<granted, dataEvents, rel, retry, app, cleanup>>

\* an encoder delivers a time slice (or its final flush)
DataAvailable ==
    /\ dataEvents < MaxChunks
    /\ \E r \in Ids, size \in 0..1 :
          /\ recState[r] \in {"recording", "finalizing"}
          /\ Commit(ondataavailable(Cur, <<r, dataEvents + 1>>, size))
          /\ lastOp' = [Op("data", NoErr) EXCEPT !.size = size]
    /\ dataEvents' = dataEvents + 1
    /\ UNCHANGED <<granted, rel, retry, app, cleanup>>

\* an encoder fires its stop event: after stop(), or once all its tracks ended
RecorderStop ==
    /\ \E r \in Ids :
          /\ \/ recState[r] = "finalizing"
             \/ recState[r] = "recording" /\ tracks[r] # "live"
          /\ Commit(handleRecordingStopped([Cur EXCEPT !.recState[r] = "stopped"]))
    /\ lastOp' = Op("onstop", NoErr)
    /\ UNCHANGED <<granted, dataEvents, rel, retry, app, cleanup>>

\* an encoder fires its error event; it then winds down and will fire stop
RecorderError ==
    /\ \E r \in Ids :
          /\ recState[r] = "recording"
          /\ Commit(onerror([Cur EXCEPT !.recState[r] = "finalizing"]))
    /\ lastOp' = Op("onerror", NoErr)
    /\ UNCHANGED <<granted, dataEvents, rel, retry, app, cleanup>>

\* an interval fires
Tick ==
    /\ elapsedSeconds < MaxElapsed
    /\ \E t \in timers : Commit(onTick(Cur))
    /\ lastOp' = Op("tick", NoErr)
    /\ UNCHANGED <<granted, dataEvents, rel, retry, app, cleanup>>

Next ==
    \/ MountPreview
    \/ StartCall
    \/ StopCall
    \/ DisposeCall
    \/ Grant
    \/ Reject
    \/ TrackEnded
    \/ DataAvailable
    \/ RecorderStop
    \/ RecorderError
    \/ Tick

Spec == Init /\ [][Next]_vars

\* An encoder that was asked to stop, or whose tracks have all ended, does fire
\* its stop event.
FairSpec == Spec /\ WF_vars(RecorderStop)

TypeOK ==
    /\ state \in RecorderStates
    /\ stream \in Ids \cup {NULL}
    /\ mediaRecorder \in Ids \cup {NULL}
    /\ timerInterval \in Ids \cup {NULL}
    /\ elapsedSeconds \in 0..MaxElapsed
    /\ pending \in 0..MaxStarts
    /\ timers \subseteq Ids

\* ==== the preview sink, set at any time ======================================
\* setPreviewElement() is public: the caller may hand over an element, or
\* null, between any two handlers.

SetSink == \E element \in BOOLEAN : SetPreviewElement(element)

NextSink ==
    \/ Next
    \/ SetSink

SpecSink == Init /\ [][NextSink]_vars

\* ==== release, track by track ================================================
\* cleanupStream() calls track.stop() on each track in turn with no try/catch
\* around the call: an exception thrown by one stop() leaves forEach and every
\* caller up to the event loop.

TrackStates == {"live", "ended"}

\* readyState of the stream as a whole: live while some track is live
streamState(trs) == IF \E i \in DOMAIN trs : trs[i] = "live" THEN "live" ELSE "ended"

\* stream.getTracks().forEach(track => track.stop()): tracks are stopped in
\* order up to the first whose stop() throws
stopEachTrack(trs, fails) ==
    LET failing == {i \in DOMAIN trs : i \in fails}
        reached == {i \in DOMAIN trs : \A j \in failing : i < j}
    IN  [trs   |-> [i \in DOMAIN trs |-> IF i \in reached THEN "ended" ELSE trs[i]],
         threw |-> failing # {}]

\* cleanupStream() on the service record s and the tracks x; the stream
\* reference is cleared only if the loop ran to its end
cleanupStreamTracks(s, x) ==
    IF s.stream = NULL
    THEN [s |-> s, x |-> [x EXCEPT !.threw = FALSE]]
    ELSE LET r == stopEachTrack(x.trs, x.fails)
             t == [s EXCEPT !.tracks[s.stream] = streamState(r.trs)]
         IN  [s |-> IF r.threw THEN t ELSE [t EXCEPT !.stream = NULL],
              x |-> [x EXCEPT !.trs = r.trs, !.threw = r.threw]]

\* handleRecordingStopped() and dispose(): stopTimer(), cleanupStream(), and
\* the rest of the method only if cleanupStream() returned
handleRecordingStoppedTracks(s, x) ==
    LET a == cleanupStreamTracks(stopTimer(s), x)
    IN  IF a.x.threw THEN a ELSE [a EXCEPT !.s = handleRecordingStopped(a.s)]

disposeTracks(s, x) ==
    LET a == cleanupStreamTracks(stopTimer(s), x)
    IN  IF a.x.threw THEN a ELSE [a EXCEPT !.s = dispose(a.s)]

TrackStopError == Err("Error", FALSE)

\* a session that holds stream 1: Recording, or Stopping after stop() or after
\* the video track ended
InitRelease ==
    /\ state \in {"recording", "stopping"}
    /\ stream = 1
    /\ mediaRecorder = 1
    /\ chunks \in {<<>>, << <<1, 1>> >>}
    /\ timerInterval = 1
    /\ elapsedSeconds = 0
    /\ videoPreviewElement \in BOOLEAN
    /\ srcObject = IF videoPreviewElement THEN 1 ELSE NULL
    /\ pending = 0
    /\ granted = 1
    /\ \E n \in 1..MaxTracks :
          /\ rel \in [trs : [1..n -> TrackStates], fails : SUBSET (1..n), threw : {FALSE}]
          /\ state = "recording" => rel.trs[1] = "live"
    /\ tracks = [k \in Ids |-> IF k = 1 THEN streamState(rel.trs) ELSE "none"]
    /\ recState = [k \in Ids |-> IF k # 1 THEN "none"
                                 ELSE IF state = "recording" THEN "recording"
                                 ELSE "finalizing"]
    /\ timers = {1}
    /\ dataEvents = Len(chunks)
    /\ lastOp = Op(IF state = "recording" THEN "grant" ELSE "stop", NoErr)
    /\ notes = <<>>
    /\ retry = FALSE
    /\ app = NoApp
    /\ cleanup = NoCleanup

\* the encoder's stop event
ReleaseOnStop ==
    /\ recState[1] = "finalizing"
    /\ LET a == handleRecordingStoppedTracks([Cur EXCEPT !.recState[1] = "stopped"], rel)
       IN  /\ Commit(a.s)
           /\ rel' = a.x
           /\ lastOp' = Op("onstop", IF a.x.threw THEN TrackStopError ELSE NoErr)
    /\ UNCHANGED <<granted, dataEvents, retry, app, cleanup>>

\* dispose() called by the App
ReleaseDispose ==
    /\ stream # NULL
    /\ LET a == disposeTracks(Cur, rel)
       IN  /\ Commit(a.s)
           /\ rel' = a.x
           /\ lastOp' = Op("dispose", IF a.x.threw THEN TrackStopError ELSE NoErr)
    /\ UNCHANGED <<granted, dataEvents, retry, app, cleanup>>

NextRelease ==
    \/ ReleaseOnStop
    \/ ReleaseDispose

SpecRelease == InitRelease /\ [][NextRelease]_vars

\* ==== the App's processing of the artifact ======================================
\* handleRecordingStop of both App revisions (the one with the recorder inline
\* and the one built on RecorderService) and generateLectureSummary, which they
\* share.  The suspension points are the FileReader of blobToBase64, the API
\* call and the sleep between attempts.

MAX_RETRIES == 2

AppVariants == {"inline", "service"}
AppStates == {"IDLE", "RECORDING", "PROCESSING", "COMPLETED", "ERROR"}

\* substrings the retry loop looks for in an error message
AuthMarks == {"API Key", "401", "403"}

EmptyFileError == Failure("Recording failed: Video file is empty.", {})
ApiKeyMissing == Failure("API Key is missing. Please set GEMINI_API_KEY in your environment.", {"API Key"})
Base64Error == Failure("Failed to extract base64 content", {})
ReadError == Failure("Failed to read blob data", {})
EmptyResponse == Failure("Empty response from Gemini API", {})
\* errors thrown by ai.models.generateContent
ApiFailures == {Failure("fetch failed", {}), Failure("401 Unauthorized", {"401"}),
                Failure("403 Forbidden", {"403"})}
\* texts the API returns, by their numbers of non-blank and blank characters
ApiTexts == [chars : 0..1, spaces : 0..1]

\* readAsDataURL gives "data:video/webm;base64," followed by the base64 of
\* the bytes, four characters for every three bytes or part of them
base64Length(size) == 4 * ((size + 2) \div 3)

\* blobToBase64 whose empty payload counts as content
blobToBase64AcceptEmpty(size) ==
    [ok |-> TRUE, err |-> NoFailure]

\* blobToBase64: split(',')[1] is the payload, rejected when it is falsy
blobToBase64(size) ==
    IF base64Length(size) = 0
    THEN [ok |-> FALSE, err |-> Base64Error]
    ELSE [ok |-> TRUE, err |-> NoFailure]

\* handleRecordingStop: the try block ran to its end (and the finally block)
processingCompleted(a) ==
    [a EXCEPT !.summary = TRUE, !.appState = "COMPLETED",
              !.pendingBlobRef = FALSE, !.pc = "done"]

\* handleRecordingStop whose catch block is not followed by the finally block
processingFailedKeepBlob(a, e) ==
    [a EXCEPT !.lastError = e, !.error = TRUE, !.appState = "ERROR", !.pc = "done"]

\* handleRecordingStop: the catch block (and the finally block)
processingFailed(a, e) ==
    [a EXCEPT !.lastError = e, !.error = TRUE, !.appState = "ERROR",
              !.pendingBlobRef = FALSE, !.pc = "done"]

\* the retry loop issues an API call
callApi(a) == [a EXCEPT !.pc = "calling", !.calls = @ + 1]

\* generateLectureSummary up to its first await: getApiKey(), then the reader
generateLectureSummary(a) ==
    IF ~a.apiKey THEN processingFailed(a, ApiKeyMissing) ELSE [a EXCEPT !.pc = "reading"]

\* handleRecordingStop up to its first await
handleRecordingStop(a, size) ==
    LET b == [a EXCEPT !.appState = "PROCESSING", !.size = size, !.step = "onStop",
                       !.pendingBlobRef = (a.variant = "service")]
    IN  IF a.variant = "inline" /\ size = 0
        THEN processingFailed(b, EmptyFileError)
        ELSE generateLectureSummary(b)

\* reader.onloadend, then the first iteration of the retry loop
onloadend(a) ==
    LET r == blobToBase64(a.size)
        b == [a EXCEPT !.step = "loadend"]
    IN  IF r.ok THEN callApi([b EXCEPT !.attempt = 0]) ELSE processingFailed(b, r.err)

\* reader.onerror
onreadererror(a) == processingFailed([a EXCEPT !.step = "readerror"], ReadError)

\* a retry loop that allows one attempt more
attemptFailedOneMore(a, e) ==
    LET b == [a EXCEPT !.lastError = e]
    IN  IF e.marks \cap AuthMarks # {} THEN processingFailed(b, e)
        ELSE IF a.attempt < MAX_RETRIES + 1 THEN [b EXCEPT !.pc = "sleeping"]
        ELSE processingFailed(b, e)

\* a catch block without the test for authentication errors
attemptFailedRetryAuth(a, e) ==
    LET b == [a EXCEPT !.lastError = e]
    IN  IF a.attempt < MAX_RETRIES THEN [b EXCEPT !.pc = "sleeping"]
        ELSE processingFailed(b, e)

\* the catch block of one attempt
attemptFailed(a, e) ==
    LET b == [a EXCEPT !.lastError = e]
    IN  IF e.marks \cap AuthMarks # {} THEN processingFailed(b, e)
        ELSE IF a.attempt < MAX_RETRIES THEN [b EXCEPT !.pc = "sleeping"]
        ELSE processingFailed(b, e)

\* a blank text taken for a summary
onResponseAcceptBlank(a, text) ==
    processingCompleted([a EXCEPT !.step = "response", !.text = text])

\* the API call returns a text
onResponse(a, text) ==
    LET b == [a EXCEPT !.step = "response", !.text = text]
    IN  IF text.chars = 0 THEN attemptFailed(b, EmptyResponse) ELSE processingCompleted(b)

\* the API call throws
onApiError(a, e) == attemptFailed([a EXCEPT !.step = "apierror"], e)

\* the sleep before the next attempt is over
onWake(a) == callApi([a EXCEPT !.attempt = @ + 1, !.step = "wake"])

sessionVars == <<svcVars, envVars, lastOp, notes, rel, retry, cleanup>>

InitApp ==
    /\ state = "idle"
    /\ stream = NULL
    /\ mediaRecorder = NULL
    /\ chunks = <<>>
    /\ timerInterval = NULL
    /\ elapsedSeconds = 0
    /\ videoPreviewElement = FALSE
    /\ srcObject = NULL
    /\ pending = 0
    /\ granted = 0
    /\ tracks = [k \in Ids |-> "none"]
    /\ recState = [k \in Ids |-> "none"]
    /\ timers = {}
    /\ dataEvents = 0
    /\ lastOp = Op("new", NoErr)
    /\ notes = <<>>
    /\ rel = NoTracks
    /\ retry = FALSE
    /\ \E variant \in AppVariants, apiKey \in BOOLEAN : app = AppAt(variant, apiKey)
    /\ cleanup = NoCleanup

\* the recording ends and its artifact reaches the App
AppOnStop ==
    /\ app.pc = "idle"
    /\ \E size \in 0..MaxBlobSize : app' = handleRecordingStop(app, size)
    /\ UNCHANGED sessionVars

ReaderLoadEnd ==
    /\ app.pc = "reading"
    /\ app' = onloadend(app)
    /\ UNCHANGED sessionVars

ReaderError ==
    /\ app.pc = "reading"
    /\ app' = onreadererror(app)
    /\ UNCHANGED sessionVars

ApiResponse ==
    /\ app.pc = "calling"
    /\ \E text \in ApiTexts : app' = onResponse(app, text)
    /\ UNCHANGED sessionVars

ApiError ==
    /\ app.pc = "calling"
    /\ \E e \in ApiFailures : app' = onApiError(app, e)
    /\ UNCHANGED sessionVars

Wake ==
    /\ app.pc = "sleeping"
    /\ app' = onWake(app)
    /\ UNCHANGED sessionVars

NextApp ==
    \/ AppOnStop
    \/ ReaderLoadEnd
    \/ ReaderError
    \/ ApiResponse
    \/ ApiError
    \/ Wake

SpecApp == InitApp /\ [][NextApp]_vars

\* The FileReader ends with loadend or error, the promise of the API call
\* settles, and the sleep's timer fires.
FairSpecApp ==
    /\ SpecApp
    /\ WF_vars(ReaderLoadEnd \/ ReaderError)
    /\ WF_vars(ApiResponse \/ ApiError)
    /\ WF_vars(Wake)

\* ==== the useCleanup hook =======================================================

\* one entry of resources.current; throws: revoking this URL, or calling this
\* cleanup function, raises an exception
Resource(id, type, throws) == [id |-> id, type |-> type, throws |-> throws]

\* resources.current.push(...)
push(c, type, throws) ==
    [c EXCEPT !.resources = Append(@, Resource(c.tracked + 1, type, throws)),
              !.tracked = @ + 1]

trackBlob(c) == [push(c, "blob", FALSE) EXCEPT !.op = "trackBlob", !.warnings = 0]

\* only URLs that start with 'blob:' are tracked
trackUrl(c, isBlobUrl, throws) ==
    LET d == [c EXCEPT !.op = "trackUrl", !.warnings = 0]
    IN  IF isBlobUrl THEN push(d, "url", throws) ELSE d

trackCustom(c, throws) == [push(c, "custom", throws) EXCEPT !.op = "trackCustom", !.warnings = 0]

\* URL.revokeObjectURL(url) or the custom cleanup, inside try/catch
handleResource(c, item) ==
    LET d == [c EXCEPT !.handled = Append(@, [id |-> item.id, threw |-> item.throws])]
    IN  IF item.throws THEN [d EXCEPT !.warnings = @ + 1] ELSE d

\* the callback cleanupAll gives to forEach
cleanupItem(c, item) ==
    IF item.type = "blob" THEN c ELSE handleResource(c, item)

RECURSIVE forEach(_, _)
forEach(c, items) ==
    IF items = <<>> THEN c
    ELSE forEach(cleanupItem(c, Head(items)), Tail(items))

\* a forEach whose callback has no try/catch: the first exception ends it
RECURSIVE forEachUnprotected(_, _)
forEachUnprotected(c, items) ==
    IF items = <<>> THEN c
    ELSE IF Head(items).type # "blob" /\ Head(items).throws
         THEN [c EXCEPT !.handled = Append(@, [id |-> Head(items).id, threw |-> TRUE]),
                        !.warnings = -1]
         ELSE forEachUnprotected(cleanupItem(c, Head(items)), Tail(items))

\* cleanupAll whose exception leaves the function before the list is emptied
cleanupAllUnprotected(c) ==
    LET d == forEachUnprotected([c EXCEPT !.warnings = 0, !.op = "cleanupAll",
                                          !.runs = @ + 1], c.resources)
    IN  IF d.warnings < 0 THEN [d EXCEPT !.warnings = 0] ELSE [d EXCEPT !.resources = <<>>]

cleanupAll(c) ==
    [forEach([c EXCEPT !.warnings = 0], c.resources)
        EXCEPT !.resources = <<>>, !.op = "cleanupAll", !.runs = @ + 1]

isUrl(r) == r.type = "url"
notUrl(r) == r.type # "url"
notBlob(r) == r.type # "blob"

cleanupUrls(c) ==
    [forEach([c EXCEPT !.warnings = 0], SelectSeq(c.resources, isUrl))
        EXCEPT !.resources = SelectSeq(c.resources, notUrl), !.op = "cleanupUrls"]

cleanupBlobs(c) ==
    [c EXCEPT !.resources = SelectSeq(@, notBlob), !.op = "cleanupBlobs", !.warnings = 0]

hookVars == <<svcVars, envVars, lastOp, notes, rel, retry, app>>

InitCleanup ==
    /\ state = "idle"
    /\ stream = NULL
    /\ mediaRecorder = NULL
    /\ chunks = <<>>
    /\ timerInterval = NULL
    /\ elapsedSeconds = 0
    /\ videoPreviewElement = FALSE
    /\ srcObject = NULL
    /\ pending = 0
    /\ granted = 0
    /\ tracks = [k \in Ids |-> "none"]
    /\ recState = [k \in Ids |-> "none"]
    /\ timers = {}
    /\ dataEvents = 0
    /\ lastOp = Op("new", NoErr)
    /\ notes = <<>>
    /\ rel = NoTracks
    /\ retry = FALSE
    /\ app = NoApp
    /\ cleanup = NoCleanup

TrackBlob ==
    /\ cleanup.tracked < MaxResources
    /\ cleanup' = trackBlob(cleanup)
    /\ UNCHANGED hookVars

TrackUrl ==
    /\ cleanup.tracked < MaxResources
    /\ \E isBlobUrl \in BOOLEAN, throws \in BOOLEAN :
          cleanup' = trackUrl(cleanup, isBlobUrl, throws)
    /\ UNCHANGED hookVars

TrackCustom ==
    /\ cleanup.tracked < MaxResources
    /\ \E throws \in BOOLEAN : cleanup' = trackCustom(cleanup, throws)
    /\ UNCHANGED hookVars

\* called by the caller, by the unmount effect or by the beforeunload listener
CleanupAll ==
    /\ cleanup.runs < MaxCleanups
    /\ cleanup' = cleanupAll(cleanup)
    /\ UNCHANGED hookVars

CleanupUrls ==
    /\ cleanup' = cleanupUrls(cleanup)
    /\ UNCHANGED hookVars

CleanupBlobs ==
    /\ cleanup' = cleanupBlobs(cleanup)
    /\ UNCHANGED hookVars

NextCleanup ==
    \/ TrackBlob
    \/ TrackUrl
    \/ TrackCustom
    \/ CleanupAll
    \/ CleanupUrls
    \/ CleanupBlobs

SpecCleanup == InitCleanup /\ [][NextCleanup]_vars

\* ==== properties ================================================================

CountNotes(ns, t) == Cardinality({i \in DOMAIN ns : ns[i].t = t})
HasNote(ns, t, v) == \E i \in DOMAIN ns : ns[i].t = t /\ ns[i].v = v

LiveStreams == {k \in Ids : tracks[k] = "live"}
ActiveEncoders == {k \in Ids : recState[k] = "recording"}

\* C1 (P1, mutual exclusion): a start() call made while the state is Recording
\* is a no-op: it issues no capture request, creates no stream, encoder or
\* timer, changes no field, and only logs the 'Already recording' warning.
C1_StartWhileRecordingIsNoOp ==
    [][ (lastOp'.name = "start" /\ state = "recording")
        => /\ UNCHANGED <<svcVars, envVars>>
           /\ notes' = <<Note("warn", "Already recording")>> ]_vars

C1_Witness ==
    /\ lastOp.name = "start"
    /\ state = "recording"
    /\ notes = <<Note("warn", "Already recording")>>
    /\ stream # NULL

\* C2: no two capture handles are alive at once: at most one granted stream has
\* live tracks and at most one encoder is recording, in every reachable state.
C2_AtMostOneCaptureHandle ==
    /\ Cardinality(LiveStreams) <= 1
    /\ Cardinality(ActiveEncoders) <= 1

\* C3: between handlers, the session holds a stream iff its state is Recording
\* or Stopping.
C3_StreamHeldIffRecordingOrStopping ==
    (stream # NULL) <=> (state \in {"recording", "stopping"})

\* What stop() does to a Recording session, stated on the fields: Stopping is
\* entered and notified, the held encoder gets its finalize request if it is
\* recording, and nothing else of the session moves.
StopTransition ==
    /\ state' = "stopping"
    /\ notes' = <<Note("state", "stopping")>>
    /\ recState' = IF mediaRecorder # NULL /\ recState[mediaRecorder] = "recording"
                   THEN [recState EXCEPT ![mediaRecorder] = "finalizing"]
                   ELSE recState
    /\ UNCHANGED <<stream, mediaRecorder, chunks, timerInterval, elapsedSeconds,
                   videoPreviewElement, srcObject, pending, granted, timers,
                   dataEvents>>

\* C4 (P2, idempotent stop): stop() in Recording enters Stopping and sends the
\* held encoder one finalize request; a stop() in any later state, Stopping
\* included, is rejected with a warning and requests nothing; and the encoder's
\* stop event delivers exactly one onStop notification.
C4_SecondStopRejected ==
    /\ [][ lastOp'.name = "stop"
           => IF state = "recording"
              THEN StopTransition /\ UNCHANGED tracks
              ELSE /\ UNCHANGED <<svcVars, envVars>>
                   /\ notes' = <<Note("warn", "Not currently recording")>> ]_vars
    /\ [][ lastOp'.name = "onstop" => CountNotes(notes', "stop") = 1 ]_vars

C4_Witness ==
    /\ lastOp.name = "stop"
    /\ state = "stopping"
    /\ notes = <<Note("warn", "Not currently recording")>>
    /\ mediaRecorder # NULL
    /\ recState[mediaRecorder] = "finalizing"

C6_TrackEndedActsAsStop ==
    [][ lastOp'.name = "ended"
        => IF state = "recording"
           THEN StopTransition
           ELSE UNCHANGED <<svcVars, srcObject, pending, granted, recState, timers,
                            dataEvents>>
                /\ notes' = <<>> ]_vars

C6_Witness ==
    /\ lastOp.name = "ended"
    /\ state = "stopping"
    /\ notes = <<Note("state", "stopping")>>
    /\ stream # NULL /\ tracks[stream] = "ended"

\* C7 (P4, timer bound): while the session holds no interval (stopTimer() has
\* returned and no new recording has started), no onTimeUpdate is delivered.
C7_NoTickAfterStopTimer ==
    [][ (timerInterval = NULL /\ timerInterval' = NULL)
        => CountNotes(notes', "time") = 0 ]_vars

\* C8: elapsedSeconds advances only while the state is Recording.
C8_ElapsedAdvancesOnlyWhileRecording ==
    [][ elapsedSeconds' > elapsedSeconds => state = "recording" ]_vars

\* C9: when the capture request is rejected with a denial (NotAllowedError, or a
\* 'Permission denied' message), the session ends in Idle, onError is not
\* invoked, and no stream, encoder or interval is held.
C9_DenialReturnsToIdleHoldingNothing ==
    [][ (lastOp'.name = "reject"
           /\ (lastOp'.err.name = "NotAllowedError" \/ lastOp'.err.permMsg))
        => /\ state' = "idle"
           /\ CountNotes(notes', "error") = 0
           /\ stream' = NULL
           /\ mediaRecorder' = NULL
           /\ timerInterval' = NULL ]_vars

\* C10: a start() failure that is not a denial (the request rejected with another
\* error, the encoder constructor or start throwing, the encoder not inactive)
\* ends in Error and invokes onError exactly once, with that failure.
C10_StartFailureReportsError ==
    [][ (lastOp'.name \in {"reject", "grant"}
           /\ lastOp'.err # NoErr
           /\ lastOp'.err.name # "NotAllowedError"
           /\ ~lastOp'.err.permMsg)
        => /\ state' = "error"
           /\ CountNotes(notes', "error") = 1
           /\ HasNote(notes', "error", lastOp'.err) ]_vars

C10_Witness ==
    /\ lastOp.name = "grant"
    /\ lastOp.err.name = "InvalidStateError"
    /\ state = "error"
    /\ \E k \in Ids : tracks[k] = "ended" /\ recState[k] = "none"

\* A step in which a failure is handled: start() resumed with a rejection or
\* failing after the grant, or an encoder's error event.
FailureStep ==
    \/ lastOp'.name \in {"reject", "grant"} /\ lastOp'.err # NoErr
    \/ lastOp'.name = "onerror"

\* C11: by the time a failure is reported (onError delivered, or the silent
\* return to Idle after a denial), every granted stream's tracks are stopped,
\* the stream and encoder references are cleared, the timer is stopped and
\* chunks is empty.
C11_FailuresReleaseEverything ==
    [][ FailureStep
        => /\ LiveStreams' = {}
           /\ stream' = NULL
           /\ mediaRecorder' = NULL
           /\ timerInterval' = NULL
           /\ chunks' = <<>> ]_vars

\* C12: an encoder error in Recording releases everything, ends in Error with
\* exactly one onError and no onStop, and the session then stays in Error, with
\* no onStop delivered, while only platform events follow.
C12_EncoderErrorEndsInErrorForGood ==
    [][ /\ (lastOp'.name = "onerror" /\ state = "recording")
           => /\ state' = "error"
              /\ CountNotes(notes', "error") = 1
              /\ CountNotes(notes', "stop") = 0
              /\ stream' = NULL /\ mediaRecorder' = NULL
              /\ timerInterval' = NULL /\ chunks' = <<>>
        /\ (lastOp.name = "onerror" /\ state = "error"
              /\ lastOp'.name \in {"onstop", "data", "tick", "ended"})
           => /\ state' = "error"
              /\ CountNotes(notes', "stop") = 0 ]_vars

C15_EmptyArtifactStillDelivered ==
    [][ (lastOp'.name = "onstop" /\ chunks = <<>>)
        => /\ state' = "idle"
           /\ CountNotes(notes', "error") = 0
           /\ CountNotes(notes', "stop") = 1
           /\ HasNote(notes', "stop", <<>>) ]_vars

C15_Witness ==
    /\ lastOp.name = "onstop"
    /\ state = "idle"
    /\ notes = <<Note("state", "idle"), Note("stop", <<>>)>>

\* C20: a start() call made while an earlier capture request is still pending is
\* a no-op: it issues no second request and changes nothing.
C20_StartWhilePendingIsNoOp ==
    [][ (lastOp'.name = "start" /\ pending > 0)
        => UNCHANGED <<svcVars, envVars>> ]_vars

\* C17 (P6, no-audio policy): a grant without an audio track, with nothing else
\* failing, either is rejected with an AudioMissing error (state Error, onError,
\* tracks released) or proceeds to Recording with a warning surfaced; it never
\* proceeds silently.
C17_NoAudioIsSignalled ==
    [][ (lastOp'.name = "grant" /\ ~lastOp'.audio /\ lastOp'.err = NoErr)
        => \/ /\ state' = "error"
              /\ CountNotes(notes', "error") = 1
              /\ stream' = NULL
           \/ /\ state' = "recording"
              /\ CountNotes(notes', "warn") >= 1 ]_vars

\* C14 (artifact contents): the artifact handed over when an encoder's stop
\* event ends a recording (state Recording or Stopping) is made of that
\* encoder's chunks only, in arrival order: it holds no chunk delivered by
\* another encoder or belonging to an earlier recording.
C14_ArtifactHoldsOnlyTheRecordingsChunks ==
    [][ \A r \in Ids :
          (/\ lastOp'.name = "onstop"
           /\ state \in {"recording", "stopping"}
           /\ recState[r] # "stopped" /\ recState'[r] = "stopped")
          => \E i \in DOMAIN notes' :
                /\ notes'[i].t = "stop"
                /\ \A j \in DOMAIN notes'[i].v : notes'[i].v[j][1] = r
                /\ \A j, k \in DOMAIN notes'[i].v :
                      j < k => notes'[i].v[j][2] < notes'[i].v[k][2] ]_vars

\* C18 (release reaches every track): when dispose() or the finalize step
\* releases the stream, every track whose stop() does not fail is stopped and
\* the stream reference is cleared, whichever tracks fail to stop.
C18_EveryOtherTrackStopped ==
    [][ lastOp'.name \in {"onstop", "dispose"}
        => /\ \A i \in DOMAIN rel'.trs : i \notin rel.fails => rel'.trs[i] = "ended"
           /\ stream' = NULL ]_vars

\* C19 (track-stop failure swallowed): when a track fails to stop during the
\* release, the finalize step still clears the chunks, reaches Idle and hands
\* over the artifact, and dispose() still ends in Idle; no exception leaves
\* the handler.
C19_TrackStopFailureSwallowed ==
    [][ /\ (lastOp'.name = "onstop" /\ rel.fails # {})
           => /\ chunks' = <<>>
              /\ state' = "idle"
              /\ HasNote(notes', "stop", chunks)
              /\ ~rel'.threw
        /\ (lastOp'.name = "dispose" /\ rel.fails # {})
           => /\ state' = "idle"
              /\ ~rel'.threw ]_vars

\* C16 (empty artifact flagged by the App): once a zero-byte artifact has
\* reached the App, no API call is ever made for it and the App is never
\* COMPLETED; it is either already in ERROR with an error shown, or (App built
\* on RecorderService) still PROCESSING while the FileReader runs, whose
\* completion then ends in ERROR.
C16_AppFlagsEmptyArtifact ==
    (app.pc # "idle" /\ app.size = 0)
    => /\ app.calls = 0
       /\ ~app.summary
       /\ \/ app.pc = "done" /\ app.appState = "ERROR" /\ app.error
          \/ app.pc = "reading" /\ app.appState = "PROCESSING" /\ app.variant = "service"

C16_Witness ==
    /\ app.variant = "service"
    /\ app.apiKey
    /\ app.size = 0
    /\ app.step = "loadend"
    /\ app.appState = "ERROR"
    /\ app.lastError = Base64Error

\* C21 (state edges): every step that changes the session state follows a
\* specified edge: Idle to Recording by a successful start, Recording to
\* Stopping by stop() or the track-ended hook, Stopping to Idle by the
\* encoder's stop event, anything to Error by a failure, anything to Idle by
\* dispose(), Error to Idle by the retrying start().
C21_StateFollowsSpecifiedEdges ==
    [][ state' # state
        => \/ /\ state = "idle" /\ state' = "recording"
              /\ lastOp'.name = "grant" /\ lastOp'.err = NoErr
           \/ /\ state = "recording" /\ state' = "stopping"
              /\ lastOp'.name \in {"stop", "ended"}
           \/ /\ state = "stopping" /\ state' = "idle"
              /\ lastOp'.name = "onstop"
           \/ /\ state' = "error"
              /\ \/ lastOp'.name \in {"grant", "reject"} /\ lastOp'.err # NoErr
                 \/ lastOp'.name = "onerror"
           \/ /\ state' = "idle"
              /\ lastOp'.name = "dispose"
           \/ /\ state = "error" /\ state' = "idle"
              /\ lastOp'.name = "start" ]_vars

\* C22 (stop outside Recording): a stop() call made in Idle (a permission
\* request pending or not), Stopping or Error changes no field of the session,
\* asks no encoder to finalize, notifies no state change and only logs the
\* warning.
C22_StopOutsideRecordingIsNoOp ==
    [][ (lastOp'.name = "stop" /\ state \in {"idle", "stopping", "error"})
        => /\ UNCHANGED <<state, stream, mediaRecorder, chunks, timerInterval,
                          elapsedSeconds, recState, timers, tracks>>
           /\ CountNotes(notes', "state") = 0
           /\ CountNotes(notes', "warn") = 1 ]_vars

C22_Witness ==
    /\ lastOp.name = "stop"
    /\ state = "error"
    /\ notes = <<Note("warn", "Not currently recording")>>
    /\ \E r \in Ids : recState[r] = "finalizing"

\* C23 (stop completes): after a stop() accepted in Recording, the encoder's
\* stop event eventually arrives and its handler leaves the session Idle with
\* exactly one finished-artifact notification; the session does not stay in
\* Stopping forever.
C23_StopLeadsToIdleWithArtifact ==
    (lastOp.name = "stop" /\ state = "stopping" /\ HasNote(notes, "state", "stopping"))
    ~> (lastOp.name = "onstop" /\ state = "idle" /\ CountNotes(notes, "stop") = 1)

C23_Witness ==
    /\ lastOp.name = "onstop"
    /\ state = "idle"
    /\ CountNotes(notes, "stop") = 1
    /\ granted = 1
    /\ pending = 0
    /\ recState[1] = "stopped"
    /\ tracks[1] = "ended"

\* C24 (dispose is lossy): once dispose() has released the only encoder ever
\* created (the session holds no encoder while encoder 1 has yet to fire its
\* stop event), that stop event delivers no finished-artifact notification.
C24_NoArtifactAfterDispose ==
    [][ (/\ lastOp'.name = "onstop"
         /\ granted = 1
         /\ mediaRecorder = NULL
         /\ recState[1] # "stopped" /\ recState'[1] = "stopped")
        => CountNotes(notes', "stop") = 0 ]_vars

\* C25 (retry from Error): when the only outstanding capture request was made
\* by a start() called in Error and it is granted, with the encoder starting
\* normally, the session is Recording on the fresh stream with its encoder and
\* timer, chunks empty and elapsed 0, and no stream of the failed attempt live.
C25_RetryFromErrorStartsClean ==
    [][ (/\ lastOp'.name = "grant" /\ lastOp'.err = NoErr
         /\ retry /\ pending = 1)
        => /\ state' = "recording"
           /\ stream' = granted' /\ tracks'[stream'] = "live"
           /\ mediaRecorder' = stream' /\ timerInterval' = stream'
           /\ LiveStreams' = {stream'}
           /\ elapsedSeconds' = 0
           /\ chunks' = <<>> ]_vars

\* C26 (elapsed): elapsedSeconds is never negative; a successful start enters
\* Recording with elapsed 0 and an elapsed-time notification of 0; every tick
\* adds exactly 1 and notifies the new value; and while the session stays in
\* Recording or Stopping across a step that is not such an entry, elapsed does
\* not decrease.
C26_ElapsedResetThenCountsUp ==
    /\ [](elapsedSeconds >= 0)
    /\ [][ /\ (lastOp'.name = "grant" /\ lastOp'.err = NoErr)
              => /\ state' = "recording"
                 /\ elapsedSeconds' = 0
                 /\ HasNote(notes', "time", 0)
           /\ lastOp'.name = "tick"
              => /\ elapsedSeconds' = elapsedSeconds + 1
                 /\ notes' = <<Note("time", elapsedSeconds + 1)>>
           /\ (/\ state \in {"recording", "stopping"}
               /\ state' \in {"recording", "stopping"}
               /\ lastOp'.name # "grant")
              => elapsedSeconds' >= elapsedSeconds ]_vars

C26_Witness ==
    /\ lastOp.name = "tick"
    /\ state = "recording"
    /\ elapsedSeconds = MaxElapsed
    /\ notes = <<Note("time", MaxElapsed)>>

\* C27 (state notifications): after every step the state last notified through
\* onStateChange is the state of the session: a step that notifies ends in the
\* state it notified last, and a step that notifies nothing leaves the state
\* as it was.
C27_LastNotifiedStateIsState ==
    [][ LET sn == SelectSeq(notes', LAMBDA n : n.t = "state")
        IN  IF sn = <<>> THEN state' = state ELSE sn[Len(sn)].v = state' ]_vars

C27_Witness ==
    /\ lastOp.name = "onerror"
    /\ state = "error"
    /\ Len(notes) = 3
    /\ notes[1] = Note("state", "idle")
    /\ notes[2] = Note("state", "error")
    /\ notes[3].t = "error"

\* C28 (bounded retries): generateLectureSummary issues at most MAX_RETRIES + 1
\* API calls, and once called it always comes to an end, with the text returned
\* (COMPLETED) or an error thrown (ERROR).
C28_BoundedAttemptsThenTerminalOutcome ==
    /\ [](app.calls <= MAX_RETRIES + 1)
    /\ [](app.pc = "done" => /\ app.appState \in {"COMPLETED", "ERROR"}
                             /\ app.summary # app.error)
    /\ (app.pc # "idle") ~> (app.pc = "done")

C28_Witness ==
    /\ app.pc = "done"
    /\ app.calls = MAX_RETRIES + 1
    /\ app.attempt = MAX_RETRIES
    /\ app.appState = "ERROR"
    /\ app.lastError = EmptyResponse

\* C29 (null sink tolerated): in every state the session can reach while the
\* caller sets and clears the sink at will, every handler, run on the state as
\* it is and on the same state with the sink null, ends in the same state and
\* makes the same notifications, the sink's own fields apart.
WithoutSink(s) == [s EXCEPT !.videoPreviewElement = FALSE, !.srcObject = NULL]

C29_SinkDoesNotMatter ==
    LET same(a, b) == WithoutSink(a) = WithoutSink(b)
        none == WithoutSink(Cur)
    IN  /\ same(startBegin(Cur), startBegin(none))
        /\ same(stop(Cur), stop(none))
        /\ same(dispose(Cur), dispose(none))
        /\ same(onTick(Cur), onTick(none))
        /\ \A id \in Ids, outcome \in EncoderOutcomes :
              same(startResume(Cur, id, outcome), startResume(none, id, outcome))
        /\ \A err \in RejectErrors : same(startCatch(Cur, err), startCatch(none, err))
        /\ \A r \in Ids :
              /\ same(onended([Cur EXCEPT !.tracks[r] = "ended"]),
                      onended([none EXCEPT !.tracks[r] = "ended"]))
              /\ same(handleRecordingStopped([Cur EXCEPT !.recState[r] = "stopped"]),
                      handleRecordingStopped([none EXCEPT !.recState[r] = "stopped"]))
              /\ same(onerror([Cur EXCEPT !.recState[r] = "finalizing"]),
                      onerror([none EXCEPT !.recState[r] = "finalizing"]))
              /\ \A size \in 0..1 :
                    same(ondataavailable(Cur, <<r, dataEvents + 1>>, size),
                         ondataavailable(none, <<r, dataEvents + 1>>, size))

\* the sink was taken away in the middle of a recording that showed a preview
C29_Witness ==
    /\ lastOp.name = "setPreviewElement"
    /\ ~videoPreviewElement
    /\ srcObject # NULL
    /\ state = "recording"

\* C30 (start during Stopping): a start() called in Stopping leaves the
\* recording being finalized as it is: the chunks buffered for its artifact,
\* its stream and tracks, its encoder and its timer are untouched.
C30_StartLeavesFinalizingRecordingAlone ==
    [][ (lastOp'.name = "start" /\ state = "stopping")
        => UNCHANGED <<chunks, stream, mediaRecorder, timerInterval, tracks,
                       recState, timers>> ]_vars

\* C31 (dispose holds): the step that follows a dispose(), unless it is a new
\* start() call, leaves the session Idle with no stream, encoder or interval
\* held and no stream live; in particular the grant of a request that was
\* pending when dispose() ran.
C31_DisposedSessionStaysIdle ==
    [][ (lastOp.name = "dispose" /\ lastOp'.name # "start")
        => /\ state' = "idle"
           /\ stream' = NULL
           /\ mediaRecorder' = NULL
           /\ timerInterval' = NULL
           /\ LiveStreams' = {} ]_vars

\* C32 (artifact only after a stop request): an encoder's stop event that
\* arrives while the state is Recording, Idle or Error delivers no
\* finished-artifact notification and changes no state.
C32_StopEventOutsideStoppingIsIgnored ==
    [][ (lastOp'.name = "onstop" /\ state \in {"recording", "idle", "error"})
        => /\ CountNotes(notes', "stop") = 0
           /\ CountNotes(notes', "state") = 0
           /\ state' = state ]_vars

\* C33 (one timer per session): at most one interval is scheduled at any time,
\* and none while the state is Idle or Error.
C33_AtMostOneTimerNoneWhenIdle ==
    /\ Cardinality(timers) <= 1
    /\ state \in {"idle", "error"} => timers = {}

\* C34 (no chunks outside a recording): whenever the state is Idle or Error the
\* chunks are empty.
C34_ChunksEmptyWhenIdleOrError ==
    state \in {"idle", "error"} => chunks = <<>>

\* C35 (chunk buffering): a data event with a non-empty fragment appends that
\* fragment to the end of chunks and notifies it exactly once; a data event
\* with an empty fragment changes chunks in nothing and notifies nothing.
C35_DataEventAppendsAndNotifiesOnce ==
    [][ lastOp'.name = "data"
        => IF lastOp'.size > 0
           THEN /\ Len(chunks') = Len(chunks) + 1
                /\ SubSeq(chunks', 1, Len(chunks)) = chunks
                /\ chunks'[Len(chunks')][2] = dataEvents'
                /\ notes' = <<Note("data", chunks'[Len(chunks')])>>
           ELSE /\ chunks' = chunks
                /\ notes' = <<>> ]_vars

C35_Witness ==
    /\ lastOp.name = "data"
    /\ lastOp.size > 0
    /\ state = "recording"
    /\ Len(chunks) = 2
    /\ notes = <<Note("data", chunks[2])>>

\* C36 (no retry of authentication failures): an attempt that fails with an
\* error whose message holds 'API Key', '401' or '403' ends the loop at once:
\* that error is thrown and no call follows; an attempt that fails with any
\* other error is followed by the sleep and one more call while attempts remain.
C36_AuthFailuresAreNotRetried ==
    [][ /\ (app.pc = "calling" /\ ~app'.summary /\ app' # app)
           => IF app'.lastError.marks \cap AuthMarks # {}
              THEN /\ app'.pc = "done"
                   /\ app'.appState = "ERROR"
                   /\ app'.error
                   /\ app'.calls = app.calls
              ELSE IF app.attempt < MAX_RETRIES
                   THEN app'.pc = "sleeping" /\ app'.lastError.marks = {}
                   ELSE app'.pc = "done" /\ app'.appState = "ERROR"
        /\ (app.pc = "sleeping" /\ app' # app)
           => /\ app'.pc = "calling"
              /\ app'.calls = app.calls + 1
              /\ app'.attempt = app.attempt + 1 ]_vars

C36_Witness ==
    /\ app.step = "apierror"
    /\ app.lastError = Failure("401 Unauthorized", {"401"})
    /\ app.pc = "done"
    /\ app.appState = "ERROR"
    /\ app.attempt = 0
    /\ app.calls = 1

\* C37 (first non-blank text wins): a call that returns a text with a
\* non-blank character ends the loop with that text and no further call; a
\* call that returns an empty or whitespace-only text is a failed attempt with
\* the error 'Empty response'; the error thrown at the end of the loop is the
\* error of the attempt just made; nothing follows the end of the loop.
C37_FirstNonBlankTextIsReturned ==
    [][ /\ (app.pc = "calling" /\ app'.step = "response")
           => IF app'.text.chars > 0
              THEN /\ app'.pc = "done"
                   /\ app'.summary /\ ~app'.error
                   /\ app'.appState = "COMPLETED"
                   /\ app'.calls = app.calls
              ELSE /\ ~app'.summary
                   /\ app'.lastError = EmptyResponse
                   /\ IF app.attempt < MAX_RETRIES
                      THEN app'.pc = "sleeping"
                      ELSE app'.pc = "done" /\ app'.error
        /\ (app.pc = "calling" /\ app'.step = "apierror")
           => /\ ~app'.summary
              /\ app'.lastError \in ApiFailures
        /\ app.pc = "done" => app' = app ]_vars

C37_Witness ==
    /\ app.step = "response"
    /\ app.text = [chars |-> 1, spaces |-> 1]
    /\ app.lastError = EmptyResponse
    /\ app.attempt = 1
    /\ app.calls = 2
    /\ app.appState = "COMPLETED"

\* C38 (the App leaves PROCESSING): the artifact's arrival puts the App in
\* PROCESSING or, when the summarization fails before its first wait, in
\* ERROR; PROCESSING lasts only while the summarization runs and always leads
\* to COMPLETED (a summary was returned) or ERROR (an error was thrown); once
\* the summarization is over the pending-artifact reference is cleared.
C38_ProcessingEndsCompletedOrError ==
    /\ [][ (app.pc = "idle" /\ app' # app)
           => \/ app'.appState = "PROCESSING"
                 /\ app'.pendingBlobRef = (app.variant = "service")
              \/ app'.appState = "ERROR" /\ app'.pc = "done" ]_vars
    /\ [](app.appState = "PROCESSING" <=> app.pc \in {"reading", "calling", "sleeping"})
    /\ [](app.pc = "done" => /\ ~app.pendingBlobRef
                             /\ app.appState = "COMPLETED" <=> app.summary
                             /\ app.appState = "ERROR" <=> app.error)
    /\ (app.appState = "PROCESSING")
          ~> (app.appState \in {"COMPLETED", "ERROR"} /\ ~app.pendingBlobRef)

C38_Witness ==
    /\ app.variant = "service"
    /\ app.pc = "done"
    /\ app.appState = "ERROR"
    /\ app.calls = 1
    /\ ~app.pendingBlobRef
    /\ app.lastError = Failure("403 Forbidden", {"403"})

\* C39 (cleanupAll): a call of cleanupAll revokes every tracked blob URL and
\* invokes every tracked custom cleanup exactly once, in the order they were
\* tracked, those after one that throws included; it warns once for each
\* that throws and leaves the tracked list empty; a cleanupAll that finds the
\* list empty revokes and invokes nothing; and over the hook's whole life no
\* resource is revoked or invoked twice.
C39_CleanupAllHandlesEachResourceOnce ==
    /\ [][ cleanup'.runs = cleanup.runs + 1
           => LET rs == cleanup.resources
                  due == SelectSeq(rs, notBlob)
              IN  /\ cleanup'.op = "cleanupAll"
                  /\ cleanup'.resources = <<>>
                  /\ cleanup'.handled
                       = cleanup.handled
                         \o [i \in 1..Len(due) |-> [id |-> due[i].id, threw |-> due[i].throws]]
                  /\ cleanup'.warnings = Cardinality({i \in 1..Len(due) : due[i].throws})
                  /\ rs = <<>> => cleanup'.handled = cleanup.handled ]_vars
    /\ [](\A i, j \in DOMAIN cleanup.handled :
             cleanup.handled[i].id = cleanup.handled[j].id => i = j)

C39_Witness ==
    /\ cleanup.op = "cleanupAll"
    /\ cleanup.runs = 2
    /\ cleanup.tracked = 3
    /\ cleanup.resources = <<>>
    /\ cleanup.handled = <<[id |-> 1, threw |-> TRUE], [id |-> 3, threw |-> FALSE]>>

====
